---------------------------- MODULE Spec2Model ----------------------------
(***************************************************************************)
(* A model of app.py: the Tower-of-Hanoi planner, the Sudoku generator and *)
(* backtracking solver, and the maze generator and depth-first solver.     *)
(*                                                                         *)
(* The three engines share no state.  Each has its own specification       *)
(* (SpecHanoi, SpecSudokuGen, SpecSudoku, SpecMazeGen, SpecMaze); the      *)
(* variables of the engines a specification does not run stay at their     *)
(* idle values.  Recursion is modelled with an explicit call stack, one    *)
(* frame per activation, one action per step of the function body.         *)
(***************************************************************************)
EXTENDS Integers, Sequences, FiniteSets, TLC

VARIABLES
    \* ---- Tower of Hanoi (generate_and_solve_hanoi, solve_hanoi_dfs)
    num_disks,      \* the request's num_disks
    path_moves,     \* the list solve_hanoi_dfs appends to
    hanoi_stack,    \* activations of solve_hanoi_dfs, innermost last
    \* ---- Sudoku generator (generate_sudoku_puzzle)
    difficulty,     \* the parameter
    puzzle_board,   \* the board being punched
    cells_removed,  \* the loop counter
    gen_pc,         \* "idle" | "loop" | "returned"
    rng,            \* the random source: [pos, stride]
    \* ---- Sudoku solver (solve_sudoku_dfs)
    board,          \* the grid, mutated in place
    input_board,    \* the grid as handed to the top-level call
    sudoku_stack,   \* activations of solve_sudoku_dfs, innermost last
    sudoku_pc,      \* "idle" | "call" | "loop" | "ret" | "done"
    sudoku_ret,     \* the value the last finished call returned
    ret_entry,      \* the grid as it was when the last finished call was entered
    \* ---- Maze generator (generate_maze, carve_path)
    width, height,  \* the parameters
    maze,           \* the grid, 1 = wall, 0 = path
    carve_stack,    \* activations of carve_path, innermost last
    maze_pc,        \* "idle" | "start" | "carve" | "returned" | "handed"
    \* ---- Maze solver (solve_maze_dfs)
    start, end,     \* the parameters
    stack,          \* the list of (position, path) frames, top last
    visited,        \* the visited set
    solve_pc,       \* "idle" | "loop" | "returned"
    solution_path   \* the returned path, or None

hanoi_vars  == <<num_disks, path_moves, hanoi_stack>>
gen_vars    == <<difficulty, puzzle_board, cells_removed, gen_pc, rng>>
sudoku_vars == <<board, input_board, sudoku_stack, sudoku_pc, sudoku_ret, ret_entry>>
mazegen_vars == <<width, height, maze, carve_stack, maze_pc>>
mazesolve_vars == <<start, end, stack, visited, solve_pc, solution_path>>
vars == <<hanoi_vars, gen_vars, sudoku_vars, mazegen_vars, mazesolve_vars>>

\* Python's None
None == "None"

(***************************************************************************)
(* Idle values of the engines a specification does not run.                *)
(***************************************************************************)
HanoiIdle ==
    /\ num_disks = 0
    /\ path_moves = <<>>
    /\ hanoi_stack = <<>>

GenIdle ==
    /\ difficulty = 0
    /\ puzzle_board = <<>>
    /\ cells_removed = 0
    /\ gen_pc = "idle"
    /\ rng = <<>>

SudokuIdle ==
    /\ board = <<>>
    /\ input_board = <<>>
    /\ sudoku_stack = <<>>
    /\ sudoku_pc = "idle"
    /\ sudoku_ret = None
    /\ ret_entry = None

MazeGenIdle ==
    /\ width = 0
    /\ height = 0
    /\ maze = <<>>
    /\ carve_stack = <<>>
    /\ maze_pc = "idle"

MazeSolveIdle ==
    /\ start = None
    /\ end = None
    /\ stack = <<>>
    /\ visited = {}
    /\ solve_pc = "idle"
    /\ solution_path = None

(***************************************************************************)
(*                          TOWER OF HANOI                                 *)
(***************************************************************************)

\* The largest disk count a request is checked with.
MaxDisks == 5

Pegs == {"A", "B", "C"}

\* A variant of FormatMove that names the pegs in the opposite order.
FormatMoveReversed(n, source, destination) ==
    "Move disk " \o ToString(n) \o " from " \o destination \o " to " \o source

\* f"Move disk {n} from {source} to {destination}"
FormatMove(n, source, destination) ==
    "Move disk " \o ToString(n) \o " from " \o source \o " to " \o destination

\* One activation of solve_hanoi_dfs; pc is where it resumes:
\*   "enter" the test of line 31, "mid" line 42 (the first recursive call has
\*   returned), "tail" the end of the body (the second call has returned).
HanoiFrame(n, source, destination, auxiliary, pc) ==
    [n |-> n, source |-> source, destination |-> destination,
     auxiliary |-> auxiliary, pc |-> pc]

\* solve_hanoi_dfs touches nothing of the other engines.
HanoiFrameCondition ==
    UNCHANGED <<gen_vars, sudoku_vars, mazegen_vars, mazesolve_vars>>

HanoiTop == hanoi_stack[Len(hanoi_stack)]

HanoiPop == SubSeq(hanoi_stack, 1, Len(hanoi_stack) - 1)

HanoiSetPc(pc) ==
    [hanoi_stack EXCEPT ![Len(hanoi_stack)].pc = pc]

\* generate_and_solve_hanoi up to the call of line 70: an empty list and the
\* outermost activation solve_hanoi_dfs(num_disks, 'A', 'C', 'B', path_moves).
HanoiInit ==
    /\ num_disks \in 1..MaxDisks
    /\ path_moves = <<>>
    /\ hanoi_stack = <<HanoiFrame(num_disks, "A", "C", "B", "enter")>>

\* Lines 31-33: the base case appends its move and returns.
HanoiBaseCase ==
    /\ hanoi_stack # <<>>
    /\ HanoiTop.pc = "enter"
    /\ HanoiTop.n = 1
    /\ path_moves' = Append(path_moves,
                            FormatMove(1, HanoiTop.source, HanoiTop.destination))
    /\ hanoi_stack' = HanoiPop
    /\ UNCHANGED num_disks
    /\ HanoiFrameCondition

\* A variant of HanoiRecurseFirst that does not swap the destination and the
\* auxiliary peg of the sub-problem.
HanoiRecurseFirstNoSwap ==
    /\ hanoi_stack # <<>>
    /\ HanoiTop.pc = "enter"
    /\ HanoiTop.n # 1
    /\ hanoi_stack' = Append(HanoiSetPc("mid"),
                             HanoiFrame(HanoiTop.n - 1, HanoiTop.source,
                                        HanoiTop.destination, HanoiTop.auxiliary,
                                        "enter"))
    /\ UNCHANGED <<num_disks, path_moves>>
    /\ HanoiFrameCondition

\* Lines 31, 38: not the base case, so call
\* solve_hanoi_dfs(n - 1, source, auxiliary, destination, path_moves).
HanoiRecurseFirst ==
    /\ hanoi_stack # <<>>
    /\ HanoiTop.pc = "enter"
    /\ HanoiTop.n # 1
    /\ hanoi_stack' = Append(HanoiSetPc("mid"),
                             HanoiFrame(HanoiTop.n - 1, HanoiTop.source,
                                        HanoiTop.auxiliary, HanoiTop.destination,
                                        "enter"))
    /\ UNCHANGED <<num_disks, path_moves>>
    /\ HanoiFrameCondition

\* A variant of HanoiMoveLargest that makes the second recursive call without
\* recording the move of disk n.
HanoiMoveLargestSilent ==
    /\ hanoi_stack # <<>>
    /\ HanoiTop.pc = "mid"
    /\ hanoi_stack' = Append(HanoiSetPc("tail"),
                             HanoiFrame(HanoiTop.n - 1, HanoiTop.auxiliary,
                                        HanoiTop.destination, HanoiTop.source,
                                        "enter"))
    /\ UNCHANGED <<num_disks, path_moves>>
    /\ HanoiFrameCondition

\* Lines 42, 47: append the move of disk n, then call
\* solve_hanoi_dfs(n - 1, auxiliary, destination, source, path_moves).
HanoiMoveLargest ==
    /\ hanoi_stack # <<>>
    /\ HanoiTop.pc = "mid"
    /\ path_moves' = Append(path_moves,
                            FormatMove(HanoiTop.n, HanoiTop.source,
                                       HanoiTop.destination))
    /\ hanoi_stack' = Append(HanoiSetPc("tail"),
                             HanoiFrame(HanoiTop.n - 1, HanoiTop.auxiliary,
                                        HanoiTop.destination, HanoiTop.source,
                                        "enter"))
    /\ UNCHANGED num_disks
    /\ HanoiFrameCondition

\* The end of the body: the second recursive call has returned, so return.
HanoiReturn ==
    /\ hanoi_stack # <<>>
    /\ HanoiTop.pc = "tail"
    /\ hanoi_stack' = HanoiPop
    /\ UNCHANGED <<num_disks, path_moves>>
    /\ HanoiFrameCondition

HanoiDone == hanoi_stack = <<>>

HanoiNext ==
    \/ HanoiBaseCase
    \/ HanoiRecurseFirst
    \/ HanoiMoveLargest
    \/ HanoiReturn

InitHanoi ==
    HanoiInit /\ GenIdle /\ SudokuIdle /\ MazeGenIdle /\ MazeSolveIdle

SpecHanoi == InitHanoi /\ [][HanoiNext]_vars

-----------------------------------------------------------------------------
(***************************************************************************)
(* Replaying a plan against three peg stacks (a stack's top is its last    *)
(* element).                                                               *)
(***************************************************************************)

\* The move a description string states: the disk and pegs that format to it.
ParseMove(s) ==
    CHOOSE m \in (1..(MaxDisks + 1)) \X Pegs \X Pegs : FormatMove(m[1], m[2], m[3]) = s

\* Disks n..1 on A, largest at the bottom.
StartPegs(n) ==
    [p \in Pegs |-> IF p = "A" THEN [i \in 1..n |-> n + 1 - i] ELSE <<>>]

GoalPegs(n) ==
    [p \in Pegs |-> IF p = "C" THEN [i \in 1..n |-> n + 1 - i] ELSE <<>>]

\* The move m is legal on pegs: its disk is on top of its source peg and the
\* destination peg is empty or has a larger disk on top.
LegalMove(pegs, m) ==
    /\ pegs[m[2]] # <<>>
    /\ pegs[m[2]][Len(pegs[m[2]])] = m[1]
    /\ m[2] # m[3]
    /\ \/ pegs[m[3]] = <<>>
       \/ pegs[m[3]][Len(pegs[m[3]])] > m[1]

ApplyMove(pegs, m) ==
    [pegs EXCEPT ![m[2]] = SubSeq(@, 1, Len(@) - 1),
                 ![m[3]] = Append(@, m[1])]

\* The outcome of replaying moves[k..] from pegs: whether every move was legal,
\* and the pegs after the last legal one.
RECURSIVE Replay(_, _, _)
Replay(moves, k, pegs) ==
    IF k > Len(moves) THEN [legal |-> TRUE, pegs |-> pegs]
    ELSE LET m == ParseMove(moves[k])
         IN  IF LegalMove(pegs, m)
             THEN Replay(moves, k + 1, ApplyMove(pegs, m))
             ELSE [legal |-> FALSE, pegs |-> pegs]

Pow2(n) == IF n <= 0 THEN 1 ELSE 2 ^ n

\* C1: replaying the moves recorded so far from disks n..1 on A, every move
\* takes the top disk of its source peg and never puts it on a smaller disk;
\* when the outermost call has returned all n disks are on C, largest at the
\* bottom, and A and B are empty.
C1_ReplayLegalAndSolved ==
    LET r == Replay(path_moves, 1, StartPegs(num_disks))
    IN  /\ r.legal
        /\ HanoiDone => r.pegs = GoalPegs(num_disks)

C1_Witness ==
    /\ HanoiDone
    /\ num_disks = 3
    /\ Len(path_moves) = 7
    /\ path_moves[4] = "Move disk 3 from A to C"

\* C2: the outermost call of solve_hanoi_dfs(n, ...) never holds more than
\* 2^n - 1 moves and has appended exactly 2^n - 1 when it returns.
C2_MoveCount ==
    /\ Len(path_moves) <= Pow2(num_disks) - 1
    /\ HanoiDone => Len(path_moves) = Pow2(num_disks) - 1

C2_Witness ==
    /\ HanoiDone
    /\ num_disks = 4
    /\ Len(path_moves) = 15

-----------------------------------------------------------------------------
\* The plan the recurrence describes: one move for one disk; for more, the
\* plan of n - 1 disks onto the auxiliary peg, the move of disk n, the plan of
\* n - 1 disks from the auxiliary peg.
RECURSIVE Plan(_, _, _, _)
Plan(n, source, destination, auxiliary) ==
    IF n <= 1
    THEN <<"Move disk 1 from " \o source \o " to " \o destination>>
    ELSE Plan(n - 1, source, auxiliary, destination)
         \o <<"Move disk " \o ToString(n) \o " from " \o source \o " to " \o destination>>
         \o Plan(n - 1, auxiliary, destination, source)

\* The last k moves recorded.
LastMoves(k) == SubSeq(path_moves, Len(path_moves) - k + 1, Len(path_moves))

\* C13: every activation of solve_hanoi_dfs(n, source, destination, auxiliary)
\* has appended, when its first recursive call returns, the plan of n - 1
\* disks from source to auxiliary, and when its second returns, that plan,
\* then "Move disk n from {source} to {destination}", then the plan of n - 1
\* disks from auxiliary to destination; the whole output is that plan for
\* (num_disks, A, C, B), and for num_disks = 2 it is the three moves quoted.
C13_PlanRecurrence ==
    /\ (hanoi_stack # <<>> /\ HanoiTop.pc = "mid")
         => /\ Len(path_moves) >= Pow2(HanoiTop.n - 1) - 1
            /\ LastMoves(Pow2(HanoiTop.n - 1) - 1)
                 = Plan(HanoiTop.n - 1, HanoiTop.source, HanoiTop.auxiliary,
                        HanoiTop.destination)
    /\ (hanoi_stack # <<>> /\ HanoiTop.pc = "tail")
         => /\ Len(path_moves) >= Pow2(HanoiTop.n) - 1
            /\ LastMoves(Pow2(HanoiTop.n) - 1)
                 = Plan(HanoiTop.n, HanoiTop.source, HanoiTop.destination,
                        HanoiTop.auxiliary)
    /\ HanoiDone => path_moves = Plan(num_disks, "A", "C", "B")
    /\ (HanoiDone /\ num_disks = 2)
         => path_moves = <<"Move disk 1 from A to B",
                           "Move disk 2 from A to C",
                           "Move disk 1 from B to C">>

\* The call for two disks has returned its three moves.
C13_Witness ==
    /\ HanoiDone
    /\ num_disks = 2
    /\ path_moves = <<"Move disk 1 from A to B",
                      "Move disk 2 from A to C",
                      "Move disk 1 from B to C">>

-----------------------------------------------------------------------------
(***************************************************************************)
(*                       SUDOKU: THE GENERATOR                             *)
(*                                                                         *)
(* A board is a tuple of 9 rows of 9 cells.  The code's coordinates run    *)
(* from 0, a tuple's from 1: the cell (r, c) of board b is b[r+1][c+1].    *)
(***************************************************************************)

\* range(9): the row and the column indices
Idx == 0..8

Cells == Idx \X Idx

Digits == 1..9

At(b, r, c) == b[r + 1][c + 1]

\* b[r][c] = v
SetCell(b, r, c, v) == [b EXCEPT ![r + 1][c + 1] = v]

\* Lines 198-208.
base_board ==
    << <<3, 1, 6, 5, 7, 8, 4, 9, 2>>,
       <<5, 2, 9, 1, 3, 4, 7, 6, 8>>,
       <<4, 8, 7, 6, 2, 9, 5, 3, 1>>,
       <<2, 6, 3, 4, 1, 5, 9, 8, 7>>,
       <<9, 7, 4, 8, 6, 3, 1, 2, 5>>,
       <<8, 5, 1, 7, 9, 2, 6, 4, 3>>,
       <<1, 3, 8, 9, 5, 7, 2, 0, 4>>,
       <<6, 9, 2, 3, 4, 1, 8, 7, 5>>,
       <<7, 4, 5, 2, 8, 6, 3, 1, 9>> >>

ZeroCells(b) == {p \in Cells : At(b, p[1], p[2]) = 0}

\* The largest difficulty a request is checked with.
MaxDifficulty == 81

\* The random source.  random.randint(0, 8) can return any index at any draw;
\* the runs checked are those in which the (row, col) pairs drawn sweep the
\* board: draw k is cell number (seed + k * stride) % 81 in row-major order,
\* for a seed in 0..MaxSeed and a stride in 1..MaxStride.  Every run of the
\* model is a run of the code; a sweep comes back to cells it has emptied, so
\* the draw of an empty cell is covered.
MaxSeed == 2

MaxStride == 2

RandRow == rng.pos \div 9

RandCol == rng.pos % 9

RngAdvance == [rng EXCEPT !.pos = (rng.pos + rng.stride) % 81]

GenFrameCondition ==
    UNCHANGED <<hanoi_vars, sudoku_vars, mazegen_vars, mazesolve_vars>>

\* Lines 196-216: the deep copy of base_board and the counter.
GenInit ==
    /\ difficulty \in 0..MaxDifficulty
    /\ puzzle_board = base_board
    /\ cells_removed = 0
    /\ gen_pc = "loop"
    /\ rng \in [pos : 0..MaxSeed, stride : 1..MaxStride]

\* A variant of GenLoopIteration that counts every draw as a removal, whether
\* or not the cell drawn still held a digit.
GenLoopIterationNoTest ==
    /\ gen_pc = "loop"
    /\ cells_removed < difficulty
    /\ puzzle_board' = SetCell(puzzle_board, RandRow, RandCol, 0)
    /\ cells_removed' = cells_removed + 1
    /\ rng' = RngAdvance
    /\ UNCHANGED <<difficulty, gen_pc>>
    /\ GenFrameCondition

\* Lines 217-222: one iteration of the removal loop.
GenLoopIteration ==
    /\ gen_pc = "loop"
    /\ cells_removed < difficulty
    /\ IF At(puzzle_board, RandRow, RandCol) # 0
       THEN /\ puzzle_board' = SetCell(puzzle_board, RandRow, RandCol, 0)
            /\ cells_removed' = cells_removed + 1
       ELSE UNCHANGED <<puzzle_board, cells_removed>>
    /\ rng' = RngAdvance
    /\ UNCHANGED <<difficulty, gen_pc>>
    /\ GenFrameCondition

\* Lines 217, 224: the loop condition fails and the board is returned.
GenReturn ==
    /\ gen_pc = "loop"
    /\ ~(cells_removed < difficulty)
    /\ gen_pc' = "returned"
    /\ UNCHANGED <<difficulty, puzzle_board, cells_removed, rng>>
    /\ GenFrameCondition

GenNext ==
    \/ GenLoopIteration
    \/ GenReturn

InitSudokuGen ==
    GenInit /\ HanoiIdle /\ SudokuIdle /\ MazeGenIdle /\ MazeSolveIdle

SpecSudokuGen == InitSudokuGen /\ [][GenNext]_vars

\* The cells of base_board that hold a digit and are empty in b.
Removed(b) == {p \in Cells : At(base_board, p[1], p[2]) # 0 /\ At(b, p[1], p[2]) = 0}

\* C7 as stated: the returned grid has exactly `difficulty` empty cells.
C7_ExactlyDZeros ==
    gen_pc = "returned" => Cardinality(ZeroCells(puzzle_board)) = difficulty

\* C7 as amended: the returned grid differs from base_board in exactly
\* `difficulty` cells, each of which held a digit and is now empty (so each
\* removal counted emptied a cell that was not yet empty); with the cell (6, 7)
\* that base_board leaves empty the grid has difficulty + 1 empty cells.
C7_RemovesDDigits ==
    /\ cells_removed = Cardinality(Removed(puzzle_board))
    /\ \A p \in Cells : At(puzzle_board, p[1], p[2]) \in {0, At(base_board, p[1], p[2])}
    /\ gen_pc = "returned" =>
        /\ Cardinality(Removed(puzzle_board)) = difficulty
        /\ Cardinality(ZeroCells(puzzle_board)) = difficulty + 1
        /\ At(puzzle_board, 6, 7) = 0

C7_Witness ==
    /\ gen_pc = "returned"
    /\ difficulty = 70
    /\ rng.stride = 1
    /\ Cardinality(ZeroCells(puzzle_board)) = 71

\* C8: while the removal loop runs (cells_removed < difficulty) a cell that
\* still holds a digit is left to remove.
C8_DigitLeftToRemove ==
    (gen_pc = "loop" /\ cells_removed < difficulty /\ difficulty <= 81)
        => ZeroCells(puzzle_board) # Cells

-----------------------------------------------------------------------------
(***************************************************************************)
(*                        SUDOKU: THE SOLVER                               *)
(***************************************************************************)

\* Lines 144-152: the first empty cell in row-major order, or None.
find_empty(b) ==
    IF ZeroCells(b) = {} THEN None
    ELSE CHOOSE p \in ZeroCells(b) :
            \A q \in ZeroCells(b) : p[1] * 9 + p[2] <= q[1] * 9 + q[2]

\* The rows and the columns of the 3x3 box of pos (lines 183-188).
BoxRows(pos) == ((pos[1] \div 3) * 3)..((pos[1] \div 3) * 3 + 2)

BoxCols(pos) == ((pos[2] \div 3) * 3)..((pos[2] \div 3) * 3 + 2)

\* A variant of is_valid_sudoku_move that leaves out the column check.
is_valid_sudoku_move_no_column(b, num, pos) ==
    /\ \A col \in Idx : ~(At(b, pos[1], col) = num /\ pos[2] # col)
    /\ \A r \in BoxRows(pos) : \A c \in BoxCols(pos) :
            ~(At(b, r, c) = num /\ <<r, c>> # pos)

\* Lines 169-194.
is_valid_sudoku_move(b, num, pos) ==
    /\ \A col \in Idx : ~(At(b, pos[1], col) = num /\ pos[2] # col)
    /\ \A row \in Idx : ~(At(b, row, pos[2]) = num /\ pos[1] # row)
    /\ \A r \in BoxRows(pos) : \A c \in BoxCols(pos) :
            ~(At(b, r, c) = num /\ <<r, c>> # pos)

\* The grids the solver is checked on: base_board with its cell (6, 7) left
\* empty (seed 0) or set to a digit, and then any set of at most MaxHoles of the
\* cells HoleCells emptied.  They include generate_sudoku_puzzle's results
\* (seed 0), full grids, and grids that can and that cannot be completed.
HoleCells == {<<6, 4>>, <<6, 5>>, <<6, 7>>, <<6, 8>>, <<7, 4>>, <<7, 8>>, <<8, 5>>}

MaxHoles == 6

Punch(b, holes) ==
    [r \in 1..9 |-> [c \in 1..9 |-> IF <<r - 1, c - 1>> \in holes THEN 0 ELSE b[r][c]]]

SolverInputs ==
    {Punch(SetCell(base_board, 6, 7, seed), holes) :
        seed \in 0..9,
        holes \in {h \in SUBSET HoleCells : Cardinality(h) <= MaxHoles}}

\* One activation of solve_sudoku_dfs that has found an empty cell: the cell,
\* the loop variable i, and (for the record) the grid as it was on entry.
SudokuFrame(pos, i, entry) ==
    [row |-> pos[1], col |-> pos[2], i |-> i, entry |-> entry]

SudokuTop == sudoku_stack[Len(sudoku_stack)]

SudokuPop == SubSeq(sudoku_stack, 1, Len(sudoku_stack) - 1)

SudokuNextDigit ==
    [sudoku_stack EXCEPT ![Len(sudoku_stack)].i = @ + 1]

SudokuFrameCondition ==
    UNCHANGED <<hanoi_vars, gen_vars, mazegen_vars, mazesolve_vars>>

\* Lines 235, 242: the copy to solve and the top-level call.
SudokuInit ==
    /\ input_board \in SolverInputs
    /\ board = input_board
    /\ sudoku_stack = <<>>
    /\ sudoku_pc = "call"
    /\ sudoku_ret = None
    /\ ret_entry = None

\* Lines 104-111: a call is entered.  With no empty cell it returns True at
\* once; otherwise it starts its loop at i = 1.
SudokuCall ==
    /\ sudoku_pc = "call"
    /\ IF find_empty(board) = None
       THEN /\ sudoku_ret' = TRUE
            /\ ret_entry' = board
            /\ sudoku_pc' = "ret"
            /\ UNCHANGED sudoku_stack
       ELSE /\ sudoku_stack' = Append(sudoku_stack,
                                      SudokuFrame(find_empty(board), 1, board))
            /\ sudoku_pc' = "loop"
            /\ UNCHANGED <<sudoku_ret, ret_entry>>
    /\ UNCHANGED <<board, input_board>>
    /\ SudokuFrameCondition

\* A variant of SudokuTry that tries the digits from 9 down to 1.
SudokuTryDescending ==
    /\ sudoku_pc = "loop"
    /\ SudokuTop.i <= 9
    /\ IF is_valid_sudoku_move(board, 10 - SudokuTop.i, <<SudokuTop.row, SudokuTop.col>>)
       THEN /\ board' = SetCell(board, SudokuTop.row, SudokuTop.col, 10 - SudokuTop.i)
            /\ sudoku_pc' = "call"
            /\ UNCHANGED sudoku_stack
       ELSE /\ sudoku_stack' = SudokuNextDigit
            /\ UNCHANGED <<board, sudoku_pc>>
    /\ UNCHANGED <<input_board, sudoku_ret, ret_entry>>
    /\ SudokuFrameCondition

\* Lines 114-122: one iteration of the loop up to the recursive call: a valid
\* digit is placed and the solver called, an invalid one is passed over.
SudokuTry ==
    /\ sudoku_pc = "loop"
    /\ SudokuTop.i <= 9
    /\ IF is_valid_sudoku_move(board, SudokuTop.i, <<SudokuTop.row, SudokuTop.col>>)
       THEN /\ board' = SetCell(board, SudokuTop.row, SudokuTop.col, SudokuTop.i)
            /\ sudoku_pc' = "call"
            /\ UNCHANGED sudoku_stack
       ELSE /\ sudoku_stack' = SudokuNextDigit
            /\ UNCHANGED <<board, sudoku_pc>>
    /\ UNCHANGED <<input_board, sudoku_ret, ret_entry>>
    /\ SudokuFrameCondition

\* Line 131: range(1, 10) is exhausted and the call returns False.
SudokuExhausted ==
    /\ sudoku_pc = "loop"
    /\ SudokuTop.i > 9
    /\ sudoku_ret' = FALSE
    /\ ret_entry' = SudokuTop.entry
    /\ sudoku_stack' = SudokuPop
    /\ sudoku_pc' = "ret"
    /\ UNCHANGED <<board, input_board>>
    /\ SudokuFrameCondition

\* Lines 122-123: the recursive call returned True, and so does its caller.
SudokuPropagate ==
    /\ sudoku_pc = "ret"
    /\ sudoku_stack # <<>>
    /\ sudoku_ret = TRUE
    /\ ret_entry' = SudokuTop.entry
    /\ sudoku_stack' = SudokuPop
    /\ UNCHANGED <<board, input_board, sudoku_pc, sudoku_ret>>
    /\ SudokuFrameCondition

\* A variant of SudokuBacktrack that goes on to the next digit without
\* emptying the cell.
SudokuBacktrackNoUndo ==
    /\ sudoku_pc = "ret"
    /\ sudoku_stack # <<>>
    /\ sudoku_ret = FALSE
    /\ sudoku_stack' = SudokuNextDigit
    /\ sudoku_pc' = "loop"
    /\ UNCHANGED <<board, input_board, sudoku_ret, ret_entry>>
    /\ SudokuFrameCondition

\* A variant of SudokuBacktrack that empties the whole row of the cell.
SudokuBacktrackClearRow ==
    /\ sudoku_pc = "ret"
    /\ sudoku_stack # <<>>
    /\ sudoku_ret = FALSE
    /\ board' = [board EXCEPT ![SudokuTop.row + 1] = [c \in 1..9 |-> 0]]
    /\ sudoku_stack' = SudokuNextDigit
    /\ sudoku_pc' = "loop"
    /\ UNCHANGED <<input_board, sudoku_ret, ret_entry>>
    /\ SudokuFrameCondition

\* Lines 122, 127: the recursive call returned False: the cell is emptied and
\* the loop goes on to the next digit.
SudokuBacktrack ==
    /\ sudoku_pc = "ret"
    /\ sudoku_stack # <<>>
    /\ sudoku_ret = FALSE
    /\ board' = SetCell(board, SudokuTop.row, SudokuTop.col, 0)
    /\ sudoku_stack' = SudokuNextDigit
    /\ sudoku_pc' = "loop"
    /\ UNCHANGED <<input_board, sudoku_ret, ret_entry>>
    /\ SudokuFrameCondition

\* Line 242: the top-level call has returned; success = sudoku_ret.
SudokuFinish ==
    /\ sudoku_pc = "ret"
    /\ sudoku_stack = <<>>
    /\ sudoku_pc' = "done"
    /\ UNCHANGED <<board, input_board, sudoku_stack, sudoku_ret, ret_entry>>
    /\ SudokuFrameCondition

SudokuNext ==
    \/ SudokuCall
    \/ SudokuTry
    \/ SudokuExhausted
    \/ SudokuPropagate
    \/ SudokuBacktrack
    \/ SudokuFinish

InitSudoku ==
    SudokuInit /\ HanoiIdle /\ GenIdle /\ MazeGenIdle /\ MazeSolveIdle

SpecSudoku == InitSudoku /\ [][SudokuNext]_vars

-----------------------------------------------------------------------------
\* Every row, every column and every 3x3 box of b holds each digit 1..9
\* exactly once (so b has no empty cell).
ValidComplete(b) ==
    \A d \in Digits :
        /\ \A r \in Idx : Cardinality({c \in Idx : At(b, r, c) = d}) = 1
        /\ \A c \in Idx : Cardinality({r \in Idx : At(b, r, c) = d}) = 1
        /\ \A br \in 0..2 : \A bc \in 0..2 :
              Cardinality({p \in ((3 * br)..(3 * br + 2)) \X ((3 * bc)..(3 * bc + 2)) :
                              At(b, p[1], p[2]) = d}) = 1

\* d occurs nowhere in the row, the column or the box of the cell p of b.
Free(b, d, p) ==
    /\ \A c \in Idx : At(b, p[1], c) # d
    /\ \A r \in Idx : At(b, r, p[2]) # d
    /\ \A r \in BoxRows(p) : \A c \in BoxCols(p) : At(b, r, c) # d

\* b has a valid completion: its empty cells can be filled so that the grid
\* is ValidComplete.
RECURSIVE HasCompletion(_)
HasCompletion(b) ==
    IF ZeroCells(b) = {} THEN ValidComplete(b)
    ELSE LET p == CHOOSE q \in ZeroCells(b) : TRUE
         IN  \E d \in Digits : Free(b, d, p) /\ HasCompletion(SetCell(b, p[1], p[2], d))

\* b is a grid generate_sudoku_puzzle can return: base_board with some of its
\* digits removed.
FromGenerator(b) ==
    \A p \in Cells : At(b, p[1], p[2]) \in {0, At(base_board, p[1], p[2])}

\* C3: whenever a call of solve_sudoku_dfs has returned True (the top-level
\* call included), the grid has no empty cell and every row, column and box
\* holds each digit exactly once.
C3_TrueMeansValid ==
    (sudoku_pc \in {"ret", "done"} /\ sudoku_ret = TRUE) => ValidComplete(board)

\* C4: on a grid generate_sudoku_puzzle can return, the solver returns True
\* and leaves a complete valid grid.
C4_GeneratedIsSolved ==
    (sudoku_pc = "done" /\ FromGenerator(input_board))
        => (sudoku_ret = TRUE /\ ValidComplete(board))

\* C5: whenever a call of solve_sudoku_dfs (top-level or recursive) has
\* returned False, the grid is cell for cell the grid that call was entered
\* with.
C5_FalseRestoresGrid ==
    (sudoku_pc \in {"ret", "done"} /\ sudoku_ret = FALSE) => board = ret_entry

\* A recursive call that had placed nothing itself is not the case of interest:
\* the witness is a call that placed a digit, saw its own recursive call fail,
\* and then returned False itself, below a caller that goes on.
C5_Witness ==
    /\ sudoku_pc = "ret"
    /\ sudoku_ret = FALSE
    /\ Len(sudoku_stack) >= 1
    /\ Cardinality(ZeroCells(ret_entry)) >= 2
    /\ \E p \in ZeroCells(ret_entry) : \E d \in Digits :
          /\ p = find_empty(ret_entry)
          /\ is_valid_sudoku_move(ret_entry, d, p)

\* C6: on a grid that has no valid completion the top-level call returns
\* False.
C6_UnsolvableReturnsFalse ==
    (sudoku_pc = "done" /\ ~HasCompletion(input_board)) => sudoku_ret = FALSE

-----------------------------------------------------------------------------
(***************************************************************************)
(*                       MAZE: THE GENERATOR                               *)
(*                                                                         *)
(* A maze is a function from the row index to a function from the column   *)
(* index: maze[y][x], both from 0, as in the code.                         *)
(***************************************************************************)

WALL == 1

PATH == 0

\* The generator is checked for the odd widths and heights 3, 5, ...,
\* 2 * MaxHalfSize + 1.
MaxHalfSize == 3

OddSizes == {2 * k + 1 : k \in 1..MaxHalfSize}

\* A variant of directions without the step up.
directionsNoUp == {<<0, 2>>, <<-2, 0>>, <<2, 0>>}

\* Line 271, before the shuffle.
directions == {<<0, -2>>, <<0, 2>>, <<-2, 0>>, <<2, 0>>}

\* One activation of carve_path.  random.shuffle followed by the for loop
\* visits the four directions in a random order: `todo` holds the directions
\* the loop has not reached yet, and the loop may reach any of them next.
\*
\* An iteration whose neighbour is out of bounds or already PATH changes
\* nothing (line 276 fails), and such a neighbour stays so for good: no cell
\* is ever set back to WALL.  Where these directions stand in the shuffled
\* order therefore shows in nothing, and their iterations are folded into the
\* step that follows them: CarveStep is the loop up to and including its next
\* recursive call, CarveReturn the loop running out without one.
CarveFrame(cx, cy, pc, todo) ==
    [cx |-> cx, cy |-> cy, pc |-> pc, todo |-> todo]

\* The test of line 276 for the neighbour of (cx, cy) in direction d.
CanCarve(m, cx, cy, d) ==
    /\ 0 <= cx + d[1] /\ cx + d[1] < width
    /\ 0 <= cy + d[2] /\ cy + d[2] < height
    /\ m[cy + d[2]][cx + d[1]] = WALL

CarveTop == carve_stack[Len(carve_stack)]

CarvePop == SubSeq(carve_stack, 1, Len(carve_stack) - 1)

MazeGenFrameCondition ==
    UNCHANGED <<hanoi_vars, gen_vars, sudoku_vars, mazesolve_vars>>

\* Line 266: a grid of walls.
MazeGenInit ==
    /\ width \in OddSizes
    /\ height \in OddSizes
    /\ maze = [y \in 0..(height - 1) |-> [x \in 0..(width - 1) |-> WALL]]
    /\ carve_stack = <<>>
    /\ maze_pc = "start"

\* Lines 281-282: carving starts at a random cell with odd coordinates.
MazeGenStart ==
    /\ maze_pc = "start"
    /\ \E start_x \in {x \in 1..(width - 1) : x % 2 = 1} :
       \E start_y \in {y \in 1..(height - 1) : y % 2 = 1} :
          carve_stack' = <<CarveFrame(start_x, start_y, "enter", {})>>
    /\ maze_pc' = "carve"
    /\ UNCHANGED <<width, height, maze>>
    /\ MazeGenFrameCondition

\* Lines 270-272: the current cell is carved and the directions shuffled.
CarveEnter ==
    /\ maze_pc = "carve"
    /\ carve_stack # <<>>
    /\ CarveTop.pc = "enter"
    /\ maze' = [maze EXCEPT ![CarveTop.cy][CarveTop.cx] = PATH]
    /\ carve_stack' = [carve_stack EXCEPT ![Len(carve_stack)] =
                          CarveFrame(CarveTop.cx, CarveTop.cy, "loop", directions)]
    /\ UNCHANGED <<width, height, maze_pc>>
    /\ MazeGenFrameCondition

\* A variant of CarveStep that recurses into the neighbour without opening
\* the wall between.
CarveStepKeepWall ==
    /\ maze_pc = "carve"
    /\ carve_stack # <<>>
    /\ CarveTop.pc = "loop"
    /\ \E d \in {e \in CarveTop.todo : CanCarve(maze, CarveTop.cx, CarveTop.cy, e)} :
          LET rest == {e \in CarveTop.todo \ {d} :
                          CanCarve(maze, CarveTop.cx, CarveTop.cy, e)}
          IN  carve_stack' =
                  Append([carve_stack EXCEPT ![Len(carve_stack)].todo = rest],
                         CarveFrame(CarveTop.cx + d[1], CarveTop.cy + d[2], "enter", {}))
    /\ UNCHANGED <<width, height, maze_pc, maze>>
    /\ MazeGenFrameCondition

\* Lines 274-278: the loop over the shuffled directions reaches a neighbour
\* two cells away that is in bounds and still a wall: the wall between is
\* opened and carve_path called on the neighbour.
CarveStep ==
    /\ maze_pc = "carve"
    /\ carve_stack # <<>>
    /\ CarveTop.pc = "loop"
    /\ \E d \in {e \in CarveTop.todo : CanCarve(maze, CarveTop.cx, CarveTop.cy, e)} :
          LET rest == {e \in CarveTop.todo \ {d} :
                          CanCarve(maze, CarveTop.cx, CarveTop.cy, e)}
          IN  /\ maze' = [maze EXCEPT
                            ![CarveTop.cy + (d[2] \div 2)][CarveTop.cx + (d[1] \div 2)] = PATH]
              /\ carve_stack' =
                  Append([carve_stack EXCEPT ![Len(carve_stack)].todo = rest],
                         CarveFrame(CarveTop.cx + d[1], CarveTop.cy + d[2], "enter", {}))
    /\ UNCHANGED <<width, height, maze_pc>>
    /\ MazeGenFrameCondition

\* Lines 274-276: the loop runs out, no remaining direction passing the test
\* of line 276, and carve_path returns.
CarveReturn ==
    /\ maze_pc = "carve"
    /\ carve_stack # <<>>
    /\ CarveTop.pc = "loop"
    /\ \A e \in CarveTop.todo : ~CanCarve(maze, CarveTop.cx, CarveTop.cy, e)
    /\ carve_stack' = CarvePop
    /\ UNCHANGED <<width, height, maze, maze_pc>>
    /\ MazeGenFrameCondition

\* Lines 285-288: the outermost carve_path has returned; the start and the end
\* cell are set to PATH and the maze is returned.
MazeGenFinish ==
    /\ maze_pc = "carve"
    /\ carve_stack = <<>>
    /\ maze' = [[maze EXCEPT ![1][1] = PATH] EXCEPT ![height - 2][width - 2] = PATH]
    /\ maze_pc' = "returned"
    /\ UNCHANGED <<width, height, carve_stack>>
    /\ MazeGenFrameCondition

MazeGenNext ==
    \/ MazeGenStart
    \/ CarveEnter
    \/ CarveStep
    \/ CarveReturn
    \/ MazeGenFinish

InitMazeGen ==
    MazeGenInit /\ HanoiIdle /\ GenIdle /\ SudokuIdle /\ MazeSolveIdle

SpecMazeGen == InitMazeGen /\ [][MazeGenNext]_vars

-----------------------------------------------------------------------------
\* Positions are (row, col) pairs, as solve_maze_dfs and its caller have them.
PathCells(m, h, w) == {p \in (0..(h - 1)) \X (0..(w - 1)) : m[p[1]][p[2]] = PATH}

Adjacent(p, q) ==
    \/ p[1] = q[1] /\ (p[2] = q[2] + 1 \/ q[2] = p[2] + 1)
    \/ p[2] = q[2] /\ (p[1] = q[1] + 1 \/ q[1] = p[1] + 1)

Neighbours(p) ==
    {<<p[1], p[2] + 1>>, <<p[1], p[2] - 1>>, <<p[1] + 1, p[2]>>, <<p[1] - 1, p[2]>>}

\* The cells of `cells` that can be reached from those of `seen` by steps
\* between adjacent cells of `cells`; `frontier` are the cells of `seen` whose
\* neighbours have not been looked at yet.
RECURSIVE Reach(_, _, _)
Reach(seen, frontier, cells) ==
    LET more == (UNION {Neighbours(p) : p \in frontier} \cap cells) \ seen
    IN  IF more = {} THEN seen ELSE Reach(seen \cup more, more, cells)

Connected(cells) ==
    \/ cells = {}
    \/ LET p == CHOOSE q \in cells : TRUE
       IN  Reach({p}, {p}, cells) = cells

\* The pairs of adjacent cells, each pair once: a cell with its neighbour to
\* the right or below.
Edges(cells) ==
    UNION {{<<p, q>> : q \in {<<p[1], p[2] + 1>>, <<p[1] + 1, p[2]>>} \cap cells} : p \in cells}

\* A connected graph with one edge fewer than cells is a tree.
IsTree(cells) ==
    /\ cells # {}
    /\ Connected(cells)
    /\ Cardinality(Edges(cells)) = Cardinality(cells) - 1

\* C9: the PATH cells of the returned maze include (1, 1) and
\* (height - 2, width - 2) and form a tree under 4-adjacency: all connected,
\* no cycle.  (While carving, too, the cells carved so far form a tree.)
C9_PerfectMaze ==
    /\ PathCells(maze, height, width) # {} => IsTree(PathCells(maze, height, width))
    /\ maze_pc = "returned" =>
        /\ maze[1][1] = PATH
        /\ maze[height - 2][width - 2] = PATH
        /\ IsTree(PathCells(maze, height, width))

\* A 7x7 maze: its 9 cells with odd coordinates and the 8 walls opened
\* between them, the passage from (1, 1) to its right-hand neighbour closed.
C9_Witness ==
    /\ maze_pc = "returned"
    /\ width = 7
    /\ height = 7
    /\ Cardinality(PathCells(maze, height, width)) = 17
    /\ maze[1][2] = WALL

-----------------------------------------------------------------------------
(***************************************************************************)
(*                         MAZE: THE SOLVER                                *)
(***************************************************************************)

\* The solver is checked on every grid of walls and paths with at most
\* MaxCells cells, from every cell of the grid to every cell of the grid.
MaxCells == 6

GridSizes == {s \in (1..MaxCells) \X (1..MaxCells) : s[1] * s[2] <= MaxCells}

\* A variant of Moves that never looks up.
MovesNoUp == << <<0, 1>>, <<0, -1>>, <<1, 0>> >>

\* Line 343: right, left, down, up, in the order the loop takes them.
Moves == << <<0, 1>>, <<0, -1>>, <<1, 0>>, <<-1, 0>> >>

\* A variant of CanVisit without the wall test.
CanVisitWalls(m, vis, nr, nc) ==
    /\ 0 <= nr /\ nr < height
    /\ 0 <= nc /\ nc < width
    /\ <<nr, nc>> \notin vis

\* A variant of MazeFrame that forgets the way to the position.
MazeFrameNoPath(pos, path) == [pos |-> pos, path |-> <<pos>>]

\* Line 351, with rows = len(maze) = height and cols = len(maze[0]) = width.
CanVisit(m, vis, nr, nc) ==
    /\ 0 <= nr /\ nr < height
    /\ 0 <= nc /\ nc < width
    /\ m[nr][nc] = 0
    /\ <<nr, nc>> \notin vis

MazeFrame(pos, path) == [pos |-> pos, path |-> path]

\* Lines 343-355 from the k-th direction on: stk with a frame appended for
\* each neighbour of pos that passes the test, its path a new list.
RECURSIVE PushNeighbours(_, _, _, _, _, _)
PushNeighbours(stk, m, vis, pos, path, k) ==
    IF k > Len(Moves) THEN stk
    ELSE LET nr == pos[1] + Moves[k][1]
             nc == pos[2] + Moves[k][2]
         IN  PushNeighbours(
                 IF CanVisit(m, vis, nr, nc)
                 THEN Append(stk, MazeFrame(<<nr, nc>>, Append(path, <<nr, nc>>)))
                 ELSE stk,
                 m, vis, pos, path, k + 1)

StackTop == stack[Len(stack)]

StackPop == SubSeq(stack, 1, Len(stack) - 1)

MazeSolveFrameCondition ==
    UNCHANGED <<hanoi_vars, gen_vars, sudoku_vars, mazegen_vars>>

\* Lines 312-321 on a grid as given: the stack holds (start, [start]) and
\* nothing is visited.
MazeSolveInit ==
    /\ \E s \in GridSizes : height = s[1] /\ width = s[2]
    /\ maze \in [0..(height - 1) -> [0..(width - 1) -> {PATH, WALL}]]
    /\ carve_stack = <<>>
    /\ maze_pc = "returned"
    /\ start \in (0..(height - 1)) \X (0..(width - 1))
    /\ end \in (0..(height - 1)) \X (0..(width - 1))
    /\ stack = <<MazeFrame(start, <<start>>)>>
    /\ visited = {}
    /\ solve_pc = "loop"
    /\ solution_path = None

\* Lines 324-331: the frame popped is at the end: its path is returned.
SolveReachEnd ==
    /\ solve_pc = "loop"
    /\ stack # <<>>
    /\ StackTop.pos = end
    /\ solution_path' = StackTop.path
    /\ stack' = StackPop
    /\ solve_pc' = "returned"
    /\ UNCHANGED <<start, end, visited>>
    /\ MazeSolveFrameCondition

\* Lines 324-336: the frame popped is at a visited cell and is dropped.
SolveSkipVisited ==
    /\ solve_pc = "loop"
    /\ stack # <<>>
    /\ StackTop.pos # end
    /\ StackTop.pos \in visited
    /\ stack' = StackPop
    /\ UNCHANGED <<start, end, visited, solve_pc, solution_path>>
    /\ MazeSolveFrameCondition

\* A variant of SolveExpand that pushes the neighbours without marking the
\* cell.
SolveExpandNoMark ==
    /\ solve_pc = "loop"
    /\ stack # <<>>
    /\ StackTop.pos # end
    /\ StackTop.pos \notin visited
    /\ stack' = PushNeighbours(StackPop, maze, visited,
                               StackTop.pos, StackTop.path, 1)
    /\ UNCHANGED <<start, end, visited, solve_pc, solution_path>>
    /\ MazeSolveFrameCondition

\* Lines 324-355: the frame popped is at a new cell: the cell is marked and
\* its neighbours pushed.
SolveExpand ==
    /\ solve_pc = "loop"
    /\ stack # <<>>
    /\ StackTop.pos # end
    /\ StackTop.pos \notin visited
    /\ visited' = visited \cup {StackTop.pos}
    /\ stack' = PushNeighbours(StackPop, maze, visited \cup {StackTop.pos},
                               StackTop.pos, StackTop.path, 1)
    /\ UNCHANGED <<start, end, solve_pc, solution_path>>
    /\ MazeSolveFrameCondition

\* Lines 324, 359: the stack is empty: there is no path.
SolveExhausted ==
    /\ solve_pc = "loop"
    /\ stack = <<>>
    /\ solution_path' = None
    /\ solve_pc' = "returned"
    /\ UNCHANGED <<start, end, stack, visited>>
    /\ MazeSolveFrameCondition

MazeSolveNext ==
    \/ SolveReachEnd
    \/ SolveSkipVisited
    \/ SolveExpand
    \/ SolveExhausted

InitMaze ==
    MazeSolveInit /\ HanoiIdle /\ GenIdle /\ SudokuIdle

SpecMaze == InitMaze /\ [][MazeSolveNext]_vars

-----------------------------------------------------------------------------
\* path leads from `from` to `to` through in-bounds PATH cells of the maze,
\* each step to an adjacent cell, no cell twice.
IsSimplePath(path, from, to) ==
    /\ Len(path) >= 1
    /\ path[1] = from
    /\ path[Len(path)] = to
    /\ \A i \in 1..(Len(path) - 1) : Adjacent(path[i], path[i + 1])
    /\ \A i \in 1..Len(path) : path[i] \in PathCells(maze, height, width)
    /\ \A i \in 1..Len(path) : \A j \in 1..Len(path) : path[i] = path[j] => i = j

Returned == solve_pc = "returned" /\ solution_path # None

\* C10 as stated: for any grid, start and end, a returned path is a simple
\* path of adjacent in-bounds PATH cells from start to end.
C10_PathIsValid ==
    Returned => IsSimplePath(solution_path, start, end)

\* C10 as amended: the same, for a start that is a PATH cell of the grid.
C10_PathIsValidFromPathCell ==
    (Returned /\ maze[start[1]][start[2]] = PATH)
        => IsSimplePath(solution_path, start, end)

\* A path that had to turn: the grid has a wall and the path four cells.
C10_Witness ==
    /\ Returned
    /\ maze[start[1]][start[2]] = PATH
    /\ Len(solution_path) = 4
    /\ \E i \in 1..3 : solution_path[i][1] # solution_path[i + 1][1]
    /\ \E i \in 1..3 : solution_path[i][2] # solution_path[i + 1][2]
    /\ PathCells(maze, height, width) # (0..(height - 1)) \X (0..(width - 1))

-----------------------------------------------------------------------------
\* The in-bounds PATH cells that steps between adjacent PATH cells lead to
\* from start.
ReachableFromStart ==
    Reach({start}, {start}, PathCells(maze, height, width))

StartIsPath == maze[start[1]][start[2]] = PATH

\* C11: from a start that is a PATH cell of the grid, solve_maze_dfs returns
\* None exactly when end cannot be reached from start through adjacent PATH
\* cells, and a path when it can.
C11_NoneIffUnreachable ==
    (solve_pc = "returned" /\ StartIsPath)
        => ((solution_path = None) <=> (end \notin ReachableFromStart))

\* The search gave up on an end that is a PATH cell cut off from start, after
\* expanding more than one cell.
C11_Witness ==
    /\ solve_pc = "returned"
    /\ solution_path = None
    /\ StartIsPath
    /\ maze[end[1]][end[2]] = PATH
    /\ end \notin ReachableFromStart
    /\ Cardinality(visited) >= 2

-----------------------------------------------------------------------------
(***************************************************************************)
(*             HANOI: THE REQUEST, WHATEVER ITS DISK COUNT                 *)
(***************************************************************************)

\* generate_and_solve_hanoi passes int(request.json.get('num_disks', 10)) to
\* solve_hanoi_dfs as it is (lines 60-70): nothing tests it.  The requests
\* modelled here carry any count from -MaxNonPositive to MaxDisks.
MaxNonPositive == 2

\* The depth at which the interpreter stops a recursion (RecursionError); it
\* is larger than any depth a positive disk count of the model reaches.
MaxDepth == 8

HanoiRequestInit ==
    /\ num_disks \in (0 - MaxNonPositive)..MaxDisks
    /\ path_moves = <<>>
    /\ hanoi_stack = <<HanoiFrame(num_disks, "A", "C", "B", "enter")>>

\* Lines 31, 38 while the interpreter allows one more activation.
HanoiRecurseBounded ==
    /\ Len(hanoi_stack) < MaxDepth
    /\ HanoiRecurseFirst

\* Lines 31, 38 at the interpreter's limit: the call raises and the error
\* unwinds every activation.
HanoiRecursionLimit ==
    /\ hanoi_stack # <<>>
    /\ Len(hanoi_stack) >= MaxDepth
    /\ HanoiTop.pc = "enter"
    /\ HanoiTop.n # 1
    /\ hanoi_stack' = <<>>
    /\ UNCHANGED <<num_disks, path_moves>>
    /\ HanoiFrameCondition

HanoiRequestNext ==
    \/ HanoiBaseCase
    \/ HanoiRecurseBounded
    \/ HanoiRecursionLimit
    \/ HanoiMoveLargest
    \/ HanoiReturn

InitHanoiRequest ==
    HanoiRequestInit /\ GenIdle /\ SudokuIdle /\ MazeGenIdle /\ MazeSolveIdle

SpecHanoiRequest == InitHanoiRequest /\ [][HanoiRequestNext]_vars

\* C12 (its Hanoi part): a disk count n <= 0 is rejected before any solving
\* step, so it never enters the recursion: solve_hanoi_dfs never calls itself
\* for it.
C12_NonPositiveNeverRecurses ==
    num_disks <= 0 => Len(hanoi_stack) <= 1

-----------------------------------------------------------------------------
(***************************************************************************)
(*              SUDOKU: MORE PROPERTIES OF THE SOLVER                      *)
(***************************************************************************)

\* C14: solve_sudoku_dfs on the grid generate_sudoku_puzzle(0) returns, which
\* is base_board with its one empty cell (6, 7), returns True, changes no
\* cell other than (6, 7), and fills (6, 7) with 6.
C14_BaseGridSolvedWithSix ==
    (sudoku_pc = "done" /\ input_board = base_board)
        => /\ ZeroCells(input_board) = {<<6, 7>>}
           /\ sudoku_ret = TRUE
           /\ board = SetCell(base_board, 6, 7, 6)


\* No digit occurs twice in a row, a column or a box of b.
NoDuplicates(b) ==
    \A d \in Digits :
        /\ \A r \in Idx : Cardinality({c \in Idx : At(b, r, c) = d}) <= 1
        /\ \A c \in Idx : Cardinality({r \in Idx : At(b, r, c) = d}) <= 1
        /\ \A br \in 0..2 : \A bc \in 0..2 :
              Cardinality({p \in ((3 * br)..(3 * br + 2)) \X ((3 * bc)..(3 * bc + 2)) :
                              At(b, p[1], p[2]) = d}) <= 1

\* C15, on the grids the generator hands to the solver: at the entry of every
\* recursive frame of solve_sudoku_dfs (a call made from line 122) no digit
\* occurs twice in a row, a column or a box of the grid.
C15_FramesEnterWithoutDuplicates ==
    (sudoku_pc = "call" /\ sudoku_stack # <<>> /\ FromGenerator(input_board))
        => NoDuplicates(board)

\* The same at the frames of a run that started from a grid without
\* duplicates (not what the generator provides).
FramesKeepNoDuplicates ==
    (sudoku_pc = "call" /\ sudoku_stack # <<>> /\ NoDuplicates(input_board))
        => NoDuplicates(board)


-----------------------------------------------------------------------------
(***************************************************************************)
(*               MAZE: MORE PROPERTIES OF THE SOLVER                       *)
(***************************************************************************)

\* The while loop of line 324 is sequential code: it takes its next step as
\* long as it has one.
SpecMazeFair == SpecMaze /\ WF_vars(MazeSolveNext)

InBounds == (0..(height - 1)) \X (0..(width - 1))

\* One step of the loop: visited loses nothing and gains at most one in-bounds
\* cell, and frames are pushed only in the step that marks the popped
\* position, which was not marked before.
VisitedStep ==
    /\ visited \subseteq visited'
    /\ visited' \subseteq InBounds
    /\ Cardinality(visited') <= Cardinality(visited) + 1
    /\ (stack' # stack /\ stack' # StackPop)
          => /\ StackTop.pos \notin visited
             /\ visited' = visited \cup {StackTop.pos}

\* C16: the visited set only grows, a position is added once and never
\* removed, the neighbours of a position are pushed at most once (only in the
\* step that adds it to visited), so there is at most one expansion per
\* in-bounds cell, and the loop ends, by returning a path or with the stack
\* empty.
C16_VisitedGrowsLoopTerminates ==
    /\ [][VisitedStep]_vars
    /\ <>(solve_pc = "returned")

\* A position that was pushed twice: one of its frames has been expanded, the
\* other is still on the stack and will be dropped.
C16_Witness ==
    /\ solve_pc = "loop"
    /\ Cardinality(visited) >= 3
    /\ \E i \in 1..Len(stack) : stack[i].pos \in visited


\* C17: every frame (pos, path) on the stack has a path that starts at start,
\* ends at pos, steps between 4-adjacent positions, repeats no position, and
\* has all its positions but the last in visited.
C17_FramesCarryTheirPath ==
    \A i \in 1..Len(stack) :
        LET path == stack[i].path
        IN  /\ Len(path) >= 1
            /\ path[1] = start
            /\ path[Len(path)] = stack[i].pos
            /\ \A j \in 1..(Len(path) - 1) : Adjacent(path[j], path[j + 1])
            /\ \A j \in 1..Len(path) : \A k \in 1..Len(path) :
                  path[j] = path[k] => j = k
            /\ \A j \in 1..(Len(path) - 1) : path[j] \in visited

\* The loop is under way with several frames on the stack, one of them three
\* steps from start and its position not yet visited.
C17_Witness ==
    /\ solve_pc = "loop"
    /\ Len(stack) >= 2
    /\ \E i \in 1..Len(stack) :
          /\ Len(stack[i].path) >= 4
          /\ stack[i].pos \notin visited


-----------------------------------------------------------------------------
(***************************************************************************)
(*        MAZE: THE REQUEST, GENERATOR AND SOLVER IN SEQUENCE              *)
(***************************************************************************)

\* generate_and_solve_maze makes the requested width and height odd, has
\* generate_maze build the maze and hands it to solve_maze_dfs with
\* start (1, 1) and end (height - 2, width - 2).  The requests modelled ask
\* for mazes of at most MaxRooms cells with odd coordinates.
MaxRooms == 9

\* Lines 370-371.
MakeOdd(n) == IF n % 2 = 0 THEN n + 1 ELSE n

Rooms(h, w) == ((h - 1) \div 2) * ((w - 1) \div 2)

RequestSizes ==
    {s \in {<<MakeOdd(h), MakeOdd(w)>> :
               h \in 3..(2 * MaxRooms + 1), w \in 3..(2 * MaxRooms + 1)} :
        Rooms(s[1], s[2]) <= MaxRooms}

\* Lines 367-373 and 266: the sizes made odd and a grid of walls.
MazeRequestInit ==
    /\ \E s \in RequestSizes : height = s[1] /\ width = s[2]
    /\ maze = [y \in 0..(height - 1) |-> [x \in 0..(width - 1) |-> WALL]]
    /\ carve_stack = <<>>
    /\ maze_pc = "start"

\* Lines 375-383 and 312-321: the maze generate_maze returned is handed to
\* solve_maze_dfs with the fixed start and end.
MazeCallSolver ==
    /\ maze_pc = "returned"
    /\ solve_pc = "idle"
    /\ start' = <<1, 1>>
    /\ end' = <<height - 2, width - 2>>
    /\ stack' = <<MazeFrame(<<1, 1>>, << <<1, 1>> >>)>>
    /\ visited' = {}
    /\ solve_pc' = "loop"
    /\ solution_path' = None
    /\ maze_pc' = "handed"
    /\ UNCHANGED <<width, height, maze, carve_stack>>
    /\ UNCHANGED <<hanoi_vars, gen_vars, sudoku_vars>>

MazeRequestNext ==
    \/ MazeGenStart
    \/ CarveEnter
    \/ CarveStep
    \/ CarveReturn
    \/ MazeGenFinish
    \/ MazeCallSolver
    \/ SolveReachEnd
    \/ SolveSkipVisited
    \/ SolveExpand
    \/ SolveExhausted

\* solve_maze_dfs is run on the maze of a request, and, as in SpecMaze, on
\* grids given to it directly.
InitMazeRequest ==
    \/ MazeRequestInit /\ HanoiIdle /\ GenIdle /\ SudokuIdle /\ MazeSolveIdle
    \/ InitMaze

SpecMazeRequest == InitMazeRequest /\ [][MazeRequestNext]_vars

\* The cells with odd coordinates.
OddCells ==
    {p \in (0..(height - 1)) \X (0..(width - 1)) : p[1] % 2 = 1 /\ p[2] % 2 = 1}

\* The outermost carve_path has returned and lines 285-286 are next.
BeforeForceCarve == maze_pc = "carve" /\ carve_stack = <<>>

\* The maze is one generate_maze has returned: the solver is yet to be called
\* on it, or has been.
Generated ==
    \/ maze_pc = "returned" /\ solve_pc = "idle"
    \/ maze_pc = "handed"

\* C18: for the odd sizes of a request and every random outcome, when the
\* outermost carve_path has returned every cell with odd coordinates is PATH,
\* (1, 1) and (height - 2, width - 2) among them; the force-carve leaves the
\* maze as it is; in the maze returned, (1, 1) and (height - 2, width - 2) are
\* PATH cells connected to every other PATH cell; and solve_maze_dfs on it
\* from (1, 1) to (height - 2, width - 2) does not return None.
C18_ForceCarveIdleSolverFindsPath ==
    /\ [](BeforeForceCarve => \A p \in OddCells : maze[p[1]][p[2]] = PATH)
    /\ [][BeforeForceCarve => maze' = maze]_vars
    /\ [](Generated =>
            /\ <<1, 1>> \in PathCells(maze, height, width)
            /\ <<height - 2, width - 2>> \in PathCells(maze, height, width)
            /\ Reach({<<1, 1>>}, {<<1, 1>>}, PathCells(maze, height, width))
                  = PathCells(maze, height, width))
    /\ []((maze_pc = "handed" /\ solve_pc = "returned") => solution_path # None)

\* A maze of 7 by 7 generated from a start other than (1, 1), handed to the
\* solver and solved by a path longer than the shortest conceivable.
C18_Witness ==
    /\ maze_pc = "handed"
    /\ solve_pc = "returned"
    /\ width = 7 /\ height = 7
    /\ solution_path # None
    /\ Len(solution_path) > 9


-----------------------------------------------------------------------------
(***************************************************************************)
(*        SUDOKU: THE SOLVER ON GRIDS WITH SEVERAL COMPLETIONS             *)
(***************************************************************************)

\* Grids the generator can return that have no duplicate digit and at least
\* one valid completion: base_board with the cells of CoreHoles removed (the
\* smallest removal that leaves a solvable grid) and at most MaxExtraHoles of
\* the cells of ExtraHoleCells.  Some of them have two and more completions.
CoreHoles == {<<6, 4>>, <<6, 7>>, <<6, 8>>, <<7, 4>>, <<7, 8>>}

ExtraHoleCells ==
    {<<3, 4>>, <<3, 5>>, <<7, 5>>, <<7, 1>>, <<8, 1>>, <<8, 8>>, <<6, 5>>, <<8, 5>>}

MaxExtraHoles == 5

OpenInputs ==
    {Punch(base_board, CoreHoles \cup extra) :
        extra \in {h \in SUBSET ExtraHoleCells : Cardinality(h) <= MaxExtraHoles}}

\* Lines 235, 242: the copy to solve and the top-level call.
SudokuOpenInit ==
    /\ input_board \in OpenInputs
    /\ board = input_board
    /\ sudoku_stack = <<>>
    /\ sudoku_pc = "call"
    /\ sudoku_ret = None
    /\ ret_entry = None

InitSudokuOpen ==
    SudokuOpenInit /\ HanoiIdle /\ GenIdle /\ MazeGenIdle /\ MazeSolveIdle

SpecSudokuOpen == InitSudokuOpen /\ [][SudokuNext]_vars

\* All valid completions of b: the ways to fill its empty cells so that the
\* grid is ValidComplete.
RECURSIVE AllCompletions(_)
AllCompletions(b) ==
    IF ZeroCells(b) = {} THEN (IF ValidComplete(b) THEN {b} ELSE {})
    ELSE LET p == CHOOSE q \in ZeroCells(b) : TRUE
         IN  UNION {AllCompletions(SetCell(b, p[1], p[2], d)) :
                        d \in {e \in Digits : Free(b, e, p)}}

\* a is not after c in the lexicographic order of the grids read row by row:
\* they are equal or a has the smaller digit in the first cell they differ in.
LexLeq(a, c) ==
    LET diff == {p \in Cells : At(a, p[1], p[2]) # At(c, p[1], p[2])}
    IN  \/ diff = {}
        \/ LET p == CHOOSE q \in diff :
                        \A r \in diff : q[1] * 9 + q[2] <= r[1] * 9 + r[2]
           IN  At(a, p[1], p[2]) < At(c, p[1], p[2])

\* C19: for an input without duplicate digits that has a valid completion,
\* the grid solve_sudoku_dfs leaves is a valid completion of the input and the
\* lexicographically smallest of them, the empty cells read in row-major
\* order.
C19_SmallestCompletion ==
    (sudoku_pc = "done" /\ NoDuplicates(input_board))
        => LET all == AllCompletions(input_board)
           IN  all # {} => /\ board \in all
                           /\ \A c \in all : LexLeq(board, c)

\* The solver is done on an input that has several completions.
C19_Witness ==
    /\ sudoku_pc = "done"
    /\ sudoku_ret = TRUE
    /\ NoDuplicates(input_board)
    /\ Cardinality(AllCompletions(input_board)) >= 2
    /\ \E c \in AllCompletions(input_board) : c # board /\ LexLeq(board, c)


-----------------------------------------------------------------------------
\* C20: solve_sudoku_dfs writes to no cell that holds a digit in the input:
\* at every point of the run and when the top-level call has returned, True
\* or False, every given cell holds its original digit.
C20_GivensUntouched ==
    \A p \in Cells :
        At(input_board, p[1], p[2]) # 0
            => At(board, p[1], p[2]) = At(input_board, p[1], p[2])

\* A recursive call has just failed, with digits of its callers still placed
\* in the grid.
C20_Witness ==
    /\ sudoku_pc = "ret"
    /\ sudoku_ret = FALSE
    /\ Len(sudoku_stack) >= 2
    /\ Cardinality(ZeroCells(input_board) \ ZeroCells(board)) >= 2

=============================================================================
